---- MODULE Spec2Model ----
(***************************************************************************)
(* A model of libjail (src/src/lib.rs): the Val tagged union, its region   *)
(* encoding (to_iov), the lazily built RULES_ALL registry, the placeholder *)
(* resolver (get_val_by_key, get_val_by_type) and the facade operations    *)
(* set, attach, remove, get_rules and get_rules_all.                       *)
(*                                                                         *)
(* Strings are sequences of one-character strings, so that prefix          *)
(* formatting, trimming, NUL detection and decimal parsing are computed.   *)
(* The kernel (jail_set, jail_get, jail_attach, jail_remove) and the       *)
(* sysctl tree are the environment: their answers are drawn from bounded   *)
(* sets.                                                                   *)
(***************************************************************************)
EXTENDS Integers, Sequences, FiniteSets, TLC

VARIABLES
    tree,       \* the kernel schema tree: full sysctl name -> leaf
    RULES_ALL,  \* the lazy static: [state, map]
    walk,       \* the registry initializer's locals: [by, todo, hash_map]
    walks,      \* history: how many walks of the schema subtree were started
    pc,         \* per thread: where it stands
    names,      \* per thread: the key vector it collected from RULES_ALL
    seen,       \* per thread: the registry mappings it has observed
    call        \* the last facade call: its inputs, locals and result

vars == <<tree, RULES_ALL, walk, walks, pc, names, seen, call>>

----------------------------------------------------------------------------
(* Bounds of the model.                                                    *)

\* longest name list handed to get_rules
MaxKeys == 2
\* most pairs in a parameter set handed to set
MaxPairs == 2
\* number of threads that may use the registry
NumThreads == 2
\* longest size string of a String leaf
MaxDigits == 2

----------------------------------------------------------------------------
(* Strings and bytes.                                                      *)

\* bytes are one-character strings (text) or two-digit hex strings
NUL == "00"
\* a byte that is no valid UTF-8
BAD == "ff"

SYSCTL_PREFIX ==
    <<"s","e","c","u","r","i","t","y",".","j","a","i","l",".","p","a","r","a","m">>

ip4_addr == <<"i","p","4",".","a","d","d","r">>
ip6_addr == <<"i","p","6",".","a","d","d","r">>
ip4 == <<"i","p","4">>
ip6 == <<"i","p","6">>
jid_key == <<"j","i","d">>
name_key == <<"n","a","m","e">>
persist == <<"p","e","r","s","i","s","t">>
host == <<"h","o","s","t">>
\* a name with an embedded NUL byte
nul_name == <<"a",NUL,"b">>

Range(s) == {s[i] : i \in 1..Len(s)}

\* format!("{}.{}", SYSCTL_PREFIX, key)
CtlName(key) == SYSCTL_PREFIX \o <<".">> \o key

IsPrefix(p, s) == Len(p) <= Len(s) /\ SubSeq(s, 1, Len(p)) = p

\* str::trim_left_matches(pat): remove every leading repetition of pat
RECURSIVE trim_left_matches(_, _)
trim_left_matches(s, pat) ==
    IF Len(pat) > 0 /\ IsPrefix(pat, s)
    THEN trim_left_matches(SubSeq(s, Len(pat) + 1, Len(s)), pat)
    ELSE s

\* str::trim_matches(c): remove c from both ends
RECURSIVE trim_matches(_, _)
trim_matches(s, c) ==
    IF Len(s) > 0 /\ s[1] = c THEN trim_matches(Tail(s), c)
    ELSE IF Len(s) > 0 /\ s[Len(s)] = c THEN trim_matches(SubSeq(s, 1, Len(s) - 1), c)
    ELSE s

\* the walk's rule name of a sysctl name
RuleName(ctl_name) == trim_matches(trim_left_matches(ctl_name, SYSCTL_PREFIX), ".")

Digits == <<"0","1","2","3","4","5","6","7","8","9">>
DigitVal(c) == (CHOOSE i \in 1..10 : Digits[i] = c) - 1

RECURSIVE ParseDigits(_, _)
ParseDigits(s, acc) ==
    IF Len(s) = 0 THEN acc
    ELSE ParseDigits(Tail(s), acc * 10 + DigitVal(s[1]))

\* str::parse::<usize>: an optional '+', then one or more decimal digits
\* (overflow of usize needs 20 digits and is beyond the strings modelled)
ParseUsize(s) ==
    LET body == IF Len(s) > 0 /\ s[1] = "+" THEN Tail(s) ELSE s
    IN  IF Len(body) = 0 \/ \E i \in 1..Len(body) : body[i] \notin Range(Digits)
        THEN [ok |-> FALSE, n |-> 0]
        ELSE [ok |-> TRUE, n |-> ParseDigits(body, 0)]

----------------------------------------------------------------------------
(* Val, the tagged union, and results.                                     *)

Val(t, n, s) == [t |-> t, n |-> n, s |-> s]
I32(n) == Val("I32", n, <<>>)
U32(n) == Val("U32", n, <<>>)
U64(n) == Val("U64", n, <<>>)
U128(bytes) == Val("U128", 0, bytes)
\* u32 and u128 address integers are kept as their bytes, most significant
\* first, so that swap_bytes keeps its width
Ip4(bytes) == Val("Ip4", 0, bytes)
Ip6(bytes) == Val("Ip6", 0, bytes)
Zero4 == [i \in 1..4 |-> NUL]
Zero16 == [i \in 1..16 |-> NUL]
BoolVal(b) == Val("Bool", IF b THEN 1 ELSE 0, <<>>)
Buffer(bytes) == Val("Buffer", 0, bytes)
CStringVal(s) == Val("CString", 0, s)
NullVal == Val("Null", 0, <<>>)

NoVal == Val("None", 0, <<>>)

Ok(v) == [tag |-> "Ok", err |-> "", val |-> v]
Err(e) == [tag |-> "Err", err |-> e, val |-> NoVal]
Panic == [tag |-> "Panic", err |-> "", val |-> NoVal]

\* impl TryFrom<String> for Val / TryFrom<&str>: CString::new fails on a NUL
TryFromString(s) ==
    IF NUL \in Range(s) THEN Err("ConvertError::NulError") ELSE Ok(CStringVal(s))

\* impl TryFrom<Vec<u8>> for Val
TryFromBuffer(bytes) == Ok(Buffer(bytes))

\* impl TryFrom<i32> for Val
TryFromI32(n) == Ok(I32(n))

----------------------------------------------------------------------------
(* The sysctl tree (the sysctl crate's Ctl) as the code queries it.        *)

Leaf(ty, k, s, b, rd) == [ty |-> ty, val |-> [k |-> k, s |-> s, b |-> b], rd |-> rd]

\* Ctl::new(name)?, ctl.name()?, ctl.value()?, ctl.value_type()?
CtlQuery(t, ctl_name) ==
    IF ctl_name \notin DOMAIN t THEN [tag |-> "Err", err |-> "SysctlError::NotFound"]
    ELSE IF ~t[ctl_name].rd THEN [tag |-> "Err", err |-> "SysctlError::NoReadAccess"]
    ELSE [tag |-> "Ok", err |-> ""]

----------------------------------------------------------------------------
(* The resolver.                                                           *)

Some(v) == [some |-> TRUE, val |-> v]
None == [some |-> FALSE, val |-> NoVal]

\* the two address parameters only, without the two family toggles
get_val_by_key_addresses(key) ==
    IF key = ip4_addr THEN Some(Ip4(Zero4))
    ELSE IF key = ip6_addr THEN Some(Ip6(Zero16))
    ELSE None

get_val_by_key(key) ==
    IF key = ip4_addr THEN Some(Ip4(Zero4))
    ELSE IF key = ip6_addr THEN Some(Ip6(Zero16))
    ELSE IF key = ip4 THEN Some(I32(0))
    ELSE IF key = ip6 THEN Some(I32(0))
    ELSE None

\* the match with a 32-bit placeholder for Ulong and a buffer one byte longer
\* than declared for String
PlaceholderOf_sizes(leaf) ==
    CASE leaf.ty = "Int" -> Ok(I32(0))
      [] leaf.ty = "Ulong" -> Ok(U32(0))
      [] leaf.ty = "String" ->
            IF leaf.val.k = "String"
            THEN LET size_result == ParseUsize(leaf.val.s)
                 IN  IF size_result.ok
                     THEN TryFromBuffer([i \in 1..(size_result.n + 1) |-> NUL])
                     ELSE Err("ConvertError::ParseIntError")
            ELSE Err("MismatchCtlValue")
      [] leaf.ty = "Struct" ->
            IF leaf.val.k = "Struct"
            THEN IF Len(leaf.val.b) = 0 THEN Panic
                 ELSE LET size == leaf.val.b[1]
                      IN  CASE size = 4 -> Ok(U32(0))
                            [] size = 16 -> Ok(U128(Zero16))
                            [] OTHER -> Err("MismatchCtlValue")
            ELSE Err("MismatchCtlValue")
      [] OTHER -> Err("MismatchCtlType")

\* the match on ctl_type of get_val_by_type
PlaceholderOf(leaf) ==
    CASE leaf.ty = "Int" -> Ok(I32(0))
      [] leaf.ty = "Ulong" -> Ok(U64(0))
      [] leaf.ty = "String" ->
            IF leaf.val.k = "String"
            THEN LET size_result == ParseUsize(leaf.val.s)
                 IN  IF size_result.ok
                     THEN TryFromBuffer([i \in 1..size_result.n |-> NUL])
                     ELSE Err("ConvertError::ParseIntError")
            ELSE Err("MismatchCtlValue")
      [] leaf.ty = "Struct" ->
            IF leaf.val.k = "Struct"
            THEN IF Len(leaf.val.b) = 0 THEN Panic
                 ELSE LET size == leaf.val.b[1]
                      IN  CASE size = 4 -> Ok(U32(0))
                            [] size = 16 -> Ok(U128(Zero16))
                            [] OTHER -> Err("MismatchCtlValue")
            ELSE Err("MismatchCtlValue")
      [] OTHER -> Err("MismatchCtlType")

get_val_by_type(t, key) ==
    LET rule == CtlName(key)
        q == CtlQuery(t, rule)
    IN  IF q.tag = "Err" THEN Err(q.err) ELSE PlaceholderOf(t[rule])

----------------------------------------------------------------------------
(* Encoding: Val::to_iov and the key,value region list.                    *)

NullPtr == [role |-> "null", pair |-> NoVal]
\* the address of the key or of the value of the pair whose key is k
KeyPtr(k) == [role |-> "key", pair |-> k]
ValuePtr(k) == [role |-> "value", pair |-> k]

to_iov(v, ptr) ==
    CASE v.t = "Buffer" -> [iov_base |-> ptr, iov_len |-> Len(v.s)]
      [] v.t = "CString" -> [iov_base |-> ptr, iov_len |-> Len(v.s) + 1]
      [] v.t = "I32" -> [iov_base |-> ptr, iov_len |-> 4]
      [] v.t = "U32" -> [iov_base |-> ptr, iov_len |-> 4]
      [] v.t = "U64" -> [iov_base |-> ptr, iov_len |-> 8]
      [] v.t = "U128" -> [iov_base |-> ptr, iov_len |-> 16]
      [] v.t = "Ip6" -> [iov_base |-> ptr, iov_len |-> 16]
      [] v.t = "Ip4" -> [iov_base |-> ptr, iov_len |-> 4]
      [] v.t = "Bool" -> [iov_base |-> ptr, iov_len |-> 1]
      [] v.t = "Null" -> [iov_base |-> NullPtr, iov_len |-> 0]

\* the iteration orders of a HashMap: every arrangement of its keys
Orders(m) ==
    {o \in [1..Cardinality(DOMAIN m) -> DOMAIN m] :
        \A i, j \in DOMAIN o : i # j => o[i] # o[j]}

\* the keys pushed first and the values after them
PushPairs_keys_first(m, order, iovec_vec) ==
    iovec_vec \o [i \in 1..Len(order) |-> to_iov(order[i], KeyPtr(order[i]))]
              \o [i \in 1..Len(order) |-> to_iov(m[order[i]], ValuePtr(order[i]))]

\* for (key, value) in map.iter() { push(key.to_iov()); push(value.to_iov()) }
RECURSIVE PushPairs(_, _, _)
PushPairs(m, order, iovec_vec) ==
    IF Len(order) = 0 THEN iovec_vec
    ELSE LET key == Head(order)
         IN  PushPairs(m, Tail(order),
                 Append(Append(iovec_vec, to_iov(key, KeyPtr(key))),
                        to_iov(m[key], ValuePtr(key))))

\* HashMap::insert
Insert(m, k, v) == [x \in DOMAIN m \cup {k} |-> IF x = k THEN v ELSE m[x]]

EmptyMap == [x \in {} |-> NoVal]

----------------------------------------------------------------------------
(* Decoding: impl From<Val> for OutVal.                                    *)

OutVal(t, n, s) == [t |-> t, n |-> n, s |-> s]

Reverse(s) == [i \in 1..Len(s) |-> s[Len(s) + 1 - i]]
swap_bytes(bytes) == Reverse(bytes)

\* CString::into_string / String::from_utf8
IsUtf8(bytes) == BAD \notin Range(bytes)

\* CStr::from_ptr: the bytes up to the first NUL; a buffer that holds no NUL is
\* read past its end, into whatever follows it in memory (tail)
CStrFromPtr(bytes, tail) ==
    LET mem == bytes \o tail \o <<NUL>>
        n == CHOOSE i \in 1..Len(mem) : mem[i] = NUL /\ \A j \in 1..(i - 1) : mem[j] # NUL
    IN  SubSeq(mem, 1, n - 1)

\* u32::from(Ipv4Addr), u128::from(Ipv6Addr): from_be_bytes of the octets, the
\* integer whose most significant byte is the address's first octet
from_be_bytes(octets) == [i \in 1..Len(octets) |-> octets[i]]

\* Ipv4Addr::from(u32), Ipv6Addr::from(u128): the octets are to_be_bytes
to_be_bytes(numeric) == [i \in 1..Len(numeric) |-> numeric[i]]

\* the numeric value stored as it is, without the swap
TryFromIpv4Addr_unswapped(value) ==
    LET numeric == from_be_bytes(value)
    IN  Ok(Ip4(numeric))

\* impl TryFrom<Ipv4Addr> for Val
TryFromIpv4Addr(value) ==
    LET numeric == from_be_bytes(value)
    IN  Ok(Ip4(swap_bytes(numeric)))

\* impl TryFrom<Ipv6Addr> for Val
TryFromIpv6Addr(value) ==
    LET numeric == from_be_bytes(value)
    IN  Ok(Ip6(swap_bytes(numeric)))

\* the fallback arm giving Null instead of a zero
from_val_null_fallback(val, tail) ==
    CASE val.t = "I32" -> OutVal("I32", val.n, <<>>)
      [] val.t = "U32" -> OutVal("U32", val.n, <<>>)
      [] val.t = "U64" -> OutVal("U64", val.n, <<>>)
      [] val.t = "Bool" -> OutVal("Bool", val.n, <<>>)
      [] val.t = "CString" ->
            OutVal("String", 0, IF IsUtf8(val.s) THEN val.s ELSE <<>>)
      [] val.t = "Ip4" -> OutVal("Ip4", 0, to_be_bytes(swap_bytes(val.s)))
      [] val.t = "Ip6" -> OutVal("Ip6", 0, to_be_bytes(swap_bytes(val.s)))
      [] val.t = "Buffer" ->
            LET string == CStrFromPtr(val.s, tail)
            IN  OutVal("String", 0, IF IsUtf8(string) THEN string ELSE <<>>)
      [] OTHER -> OutVal("Null", 0, <<>>)

from_val(val, tail) ==
    CASE val.t = "I32" -> OutVal("I32", val.n, <<>>)
      [] val.t = "U32" -> OutVal("U32", val.n, <<>>)
      [] val.t = "U64" -> OutVal("U64", val.n, <<>>)
      [] val.t = "Bool" -> OutVal("Bool", val.n, <<>>)
      [] val.t = "CString" ->
            OutVal("String", 0, IF IsUtf8(val.s) THEN val.s ELSE <<>>)
      [] val.t = "Ip4" -> OutVal("Ip4", 0, to_be_bytes(swap_bytes(val.s)))
      [] val.t = "Ip6" -> OutVal("Ip6", 0, to_be_bytes(swap_bytes(val.s)))
      [] val.t = "Buffer" ->
            LET string == CStrFromPtr(val.s, tail)
            IN  OutVal("String", 0, IF IsUtf8(string) THEN string ELSE <<>>)
      [] OTHER -> OutVal("I32", 0, <<>>)

\* Val::into_string for the variants a map key takes
into_string(val) ==
    CASE val.t = "CString" ->
            IF IsUtf8(val.s) THEN [tag |-> "Ok", err |-> "", s |-> val.s]
            ELSE [tag |-> "Err", err |-> "ConvertError::IntoStringError", s |-> <<>>]
      [] OTHER -> [tag |-> "Err", err |-> "unmodelled", s |-> <<>>]

----------------------------------------------------------------------------
(* The kernel: what jail_set, jail_get, jail_attach and jail_remove answer *)

Errnos == {"EPERM", "ENOENT"}

\* a value region after jail_get wrote into it, per kind of content written
Written(v, w) ==
    CASE w = "none" -> v
      [] v.t = "Buffer" ->
            Buffer([i \in 1..Len(v.s) |->
                      IF i = Len(v.s) THEN NUL ELSE IF w = "text" THEN "a" ELSE BAD])
      [] v.t \in {"I32", "U32", "U64", "Bool"} -> Val(v.t, 1, <<>>)
      [] v.t \in {"Ip4", "Ip6", "U128"} ->
            Val(v.t, 0, [i \in 1..Len(v.s) |-> IF i = 1 THEN "01" ELSE IF i = Len(v.s) THEN "7f" ELSE NUL])
      [] OTHER -> v

\* jail_get: a status, the errno it leaves, and the value regions afterwards
JailGetReplies(hash_map) ==
    {[ret |-> -1, errno |-> e, written |-> hash_map] : e \in Errnos}
    \cup {[ret |-> r, errno |-> "", written |-> [k \in DOMAIN hash_map |-> Written(hash_map[k], w)]] :
            r \in {0, 1}, w \in {"none", "text", "bad"}}

\* what may follow a buffer in memory
OverrunTails == {<<>>, <<"z">>, <<BAD>>}

Tails(hash_map) ==
    IF \E k \in DOMAIN hash_map : hash_map[k].t = "Buffer" /\ NUL \notin Range(hash_map[k].s)
    THEN OverrunTails ELSE {<<>>}

----------------------------------------------------------------------------
(* The facade operations, as functions of their inputs and of the kernel's *)
(* answers.                                                                *)

Jid(n) == [t |-> "Jid", n |-> n, s |-> <<>>]
Name(s) == [t |-> "Name", n |-> 0, s |-> s]
NoIndex == [t |-> "None", n |-> 0, s |-> <<>>]

EmptyOut == [x \in {} |-> OutVal("Null", 0, <<>>)]

ResultOk(jid, out) == [tag |-> "Ok", err |-> "", code |-> "", jid |-> jid, out |-> out]
ResultErr(e) == [tag |-> "Err", err |-> e, code |-> "", jid |-> 0, out |-> EmptyOut]
\* Err(IoError::last_os_error())?
ResultIoError(errno) == [tag |-> "Err", err |-> "IoError", code |-> errno, jid |-> 0, out |-> EmptyOut]
ResultPanic == [tag |-> "Panic", err |-> "", code |-> "", jid |-> 0, out |-> EmptyOut]
NoResult == [tag |-> "None", err |-> "", code |-> "", jid |-> 0, out |-> EmptyOut]

NoCall ==
    [op |-> "none", by |-> 0, index |-> NoIndex, keys |-> <<>>, rules |-> EmptyMap,
     action |-> {}, jid |-> 0, queried |-> <<>>, hash_map |-> EmptyMap,
     iovec_vec |-> <<>>, syscalls |-> <<>>, ret |-> 0, errno |-> "",
     written |-> EmptyMap,
     result |-> NoResult]

\* the match without its NoReadAccess arm: no failure is skipped
IsSkipped_never(value) == FALSE

\* the match with a catch-all arm that continues: every failure is skipped
IsSkipped_any(value) == value.tag = "Err"

\* what the arm of the match on get_val_by_type's result does with it
IsSkipped(value) == value.tag = "Err" /\ value.err = "SysctlError::NoReadAccess"

\* the for loop of get_rules over the requested keys
RECURSIVE ResolveKeys(_, _, _, _)
ResolveKeys(t, keys, hash_map, queried) ==
    IF Len(keys) = 0
    THEN [tag |-> "Ok", err |-> "", hash_map |-> hash_map, queried |-> queried]
    ELSE LET key == Head(keys)
             by_key == get_val_by_key(key)
             key_val == TryFromString(key)
         IN  IF by_key.some
             THEN IF key_val.tag = "Err"
                  THEN [tag |-> "Err", err |-> key_val.err, hash_map |-> hash_map, queried |-> queried]
                  ELSE ResolveKeys(t, Tail(keys), Insert(hash_map, key_val.val, by_key.val), queried)
             ELSE LET value == get_val_by_type(t, key)
                      asked == Append(queried, CtlName(key))
                  IN  IF value.tag = "Panic"
                      THEN [tag |-> "Panic", err |-> "", hash_map |-> hash_map, queried |-> asked]
                      ELSE IF key_val.tag = "Err"
                      THEN [tag |-> "Err", err |-> key_val.err, hash_map |-> hash_map, queried |-> asked]
                      ELSE IF value.tag = "Ok"
                      THEN ResolveKeys(t, Tail(keys), Insert(hash_map, key_val.val, value.val), asked)
                      ELSE IF IsSkipped(value)
                      THEN ResolveKeys(t, Tail(keys), hash_map, asked)
                      ELSE [tag |-> "Err", err |-> value.err, hash_map |-> hash_map, queried |-> asked]

\* the index pair put in only when the map has no such key yet
InsertIndex_unless_present(hash_map, index) ==
    IF index.t = "Jid"
    THEN [tag |-> "Ok", err |-> "",
          hash_map |-> IF TryFromString(jid_key).val \in DOMAIN hash_map THEN hash_map
                       ELSE Insert(hash_map, TryFromString(jid_key).val, TryFromI32(index.n).val)]
    ELSE LET value == TryFromString(index.s)
         IN  IF value.tag = "Err"
             THEN [tag |-> "Err", err |-> value.err, hash_map |-> hash_map]
             ELSE [tag |-> "Ok", err |-> "",
                   hash_map |-> IF TryFromString(name_key).val \in DOMAIN hash_map THEN hash_map
                                ELSE Insert(hash_map, TryFromString(name_key).val, value.val)]

\* match index.into() { Jid => insert("jid", jid), Name => insert("name", name) }
InsertIndex(hash_map, index) ==
    IF index.t = "Jid"
    THEN [tag |-> "Ok", err |-> "",
          hash_map |-> Insert(hash_map, TryFromString(jid_key).val, TryFromI32(index.n).val)]
    ELSE LET value == TryFromString(index.s)
         IN  IF value.tag = "Err"
             THEN [tag |-> "Err", err |-> value.err, hash_map |-> hash_map]
             ELSE [tag |-> "Ok", err |-> "",
                   hash_map |-> Insert(hash_map, TryFromString(name_key).val, value.val)]

\* the request get_rules builds, or the failure that ends it before the kernel call
Request(t, index, keys) ==
    LET r == ResolveKeys(t, keys, EmptyMap, <<>>)
    IN  IF r.tag # "Ok" THEN r
        ELSE LET i == InsertIndex(r.hash_map, index)
             IN  [tag |-> i.tag, err |-> i.err, hash_map |-> i.hash_map, queried |-> r.queried]

\* success taken to be a positive status
GetRulesResult_positive(reply, tail) ==
    IF reply.ret > 0
    THEN LET ks == {into_string(k) : k \in DOMAIN reply.written}
         IN  IF \E k \in ks : k.tag = "Err"
             THEN ResultErr((CHOOSE k \in ks : k.tag = "Err").err)
             ELSE ResultOk(0, [n \in {into_string(k).s : k \in DOMAIN reply.written} |->
                                from_val(reply.written[TryFromString(n).val], tail)])
    ELSE ResultIoError(reply.errno)

\* if result >= 0 { decode every pair } else { Err(last_os_error) }
GetRulesResult(reply, tail) ==
    IF reply.ret >= 0
    THEN LET ks == {into_string(k) : k \in DOMAIN reply.written}
         IN  IF \E k \in ks : k.tag = "Err"
             THEN ResultErr((CHOOSE k \in ks : k.tag = "Err").err)
             ELSE ResultOk(0, [n \in {into_string(k).s : k \in DOMAIN reply.written} |->
                                from_val(reply.written[TryFromString(n).val], tail)])
    ELSE ResultIoError(reply.errno)

\* get_rules that ended before its kernel call
get_rules_early(op, by, index, keys, r) ==
    [NoCall EXCEPT !.op = op, !.by = by, !.index = index, !.keys = keys,
                   !.queried = r.queried,
                   !.result = IF r.tag = "Panic" THEN ResultPanic ELSE ResultErr(r.err)]

\* get_rules that reached its kernel call
get_rules_late(op, by, index, keys, r, order, reply, tail) ==
    LET iovec_vec == PushPairs(r.hash_map, order, <<>>)
    IN  [NoCall EXCEPT !.op = op, !.by = by, !.index = index, !.keys = keys,
                       !.queried = r.queried, !.hash_map = r.hash_map,
                       !.iovec_vec = iovec_vec,
                       !.syscalls = <<[name |-> "jail_get", niov |-> Len(iovec_vec), flags |-> {}]>>,
                       !.ret = reply.ret, !.errno = reply.errno, !.written = reply.written,
                       !.result = GetRulesResult(reply, tail)]

\* the calls get_rules(index, keys) can turn into
get_rules(op, by, t, index, keys) ==
    LET r == Request(t, index, keys)
    IN  IF r.tag # "Ok" THEN {get_rules_early(op, by, index, keys, r)}
        ELSE {get_rules_late(op, by, index, keys, r, order, reply, tail) :
                order \in Orders(r.hash_map),
                reply \in JailGetReplies(r.hash_map),
                tail \in Tails(r.hash_map)}

\* jail_set: the identifier it returns and the errno it leaves
JailSetReplies ==
    {[ret |-> r, errno |-> e] : r \in {-1, 0}, e \in Errnos}
    \cup {[ret |-> r, errno |-> ""] : r \in {1, 2}}

\* success taken to be a non-negative identifier
set_result_nonnegative(reply) ==
    IF reply.ret >= 0 THEN ResultOk(reply.ret, EmptyOut) ELSE ResultIoError(reply.errno)

set_result(reply) == IF reply.ret > 0 THEN ResultOk(reply.ret, EmptyOut) ELSE ResultIoError(reply.errno)

set(rules, action, order, reply) ==
    LET iovec_vec == PushPairs(rules, order, <<>>)
    IN  [NoCall EXCEPT !.op = "set", !.rules = rules, !.action = action,
                       !.hash_map = rules, !.iovec_vec = iovec_vec,
                       !.syscalls = <<[name |-> "jail_set", niov |-> Len(iovec_vec), flags |-> action]>>,
                       !.ret = reply.ret, !.errno = reply.errno, !.written = rules,
                       !.result = set_result(reply)]

\* jail_attach, jail_remove: the status they return and the errno they leave
StatusReplies ==
    {[ret |-> r, errno |-> e] : r \in {-1, 1}, e \in Errnos} \cup {[ret |-> 0, errno |-> ""]}

\* success taken to be a non-negative status
status_result_nonnegative(reply) ==
    IF reply.ret >= 0 THEN ResultOk(0, EmptyOut) ELSE ResultIoError(reply.errno)

status_result(reply) == IF reply.ret = 0 THEN ResultOk(0, EmptyOut) ELSE ResultIoError(reply.errno)

attach(jid, reply) ==
    [NoCall EXCEPT !.op = "attach", !.jid = jid,
                   !.syscalls = <<[name |-> "jail_attach", niov |-> 0, flags |-> {}]>>,
                   !.ret = reply.ret, !.errno = reply.errno, !.result = status_result(reply)]

remove(jid, reply) ==
    [NoCall EXCEPT !.op = "remove", !.jid = jid,
                   !.syscalls = <<[name |-> "jail_remove", niov |-> 0, flags |-> {}]>>,
                   !.ret = reply.ret, !.errno = reply.errno, !.result = status_result(reply)]

----------------------------------------------------------------------------
(* RULES_ALL: the lazily built registry.                                   *)

\* impl From<CtlType> for RuleType
RuleTypeFrom(ctl_type) ==
    CASE ctl_type = "Int" -> "Int"
      [] ctl_type = "String" -> "String"
      [] ctl_type = "Ulong" -> "Ulong"
      [] OTHER -> "Unknown"

\* the if / else if / else of the walk's loop body
Classify(rule_name, ctl_type) ==
    IF rule_name = ip4_addr THEN "Ip4"
    ELSE IF rule_name = ip6_addr THEN "Ip6"
    ELSE RuleTypeFrom(ctl_type)

EmptyRegistry == [x \in {} |-> "Unknown"]

Unbuilt == [state |-> "Incomplete", map |-> EmptyRegistry, order |-> <<>>]
NoWalk == [by |-> 0, todo |-> {}, hash_map |-> EmptyRegistry]

\* the registry's keys with the built-in names appended
RegistryKeys_with_builtins(lazy) == lazy.order \o <<ip4_addr, ip6_addr, ip4, ip6>>

\* RULES_ALL.keys().map(|key| key.clone()).collect()
RegistryKeys(lazy) == lazy.order

\* an initializer without the Once: it runs for every thread that finds the static
\* not built yet
OnceStarts_unsynchronized(lazy) == lazy.state # "Complete"

\* lazy_static's Once: the initializer runs for the first thread to arrive only
OnceStarts(lazy) == lazy.state = "Incomplete"

----------------------------------------------------------------------------
(* Inputs.                                                                 *)

Threads == 1..NumThreads

RECURSIVE SeqsUpTo(_, _)
SeqsUpTo(S, n) ==
    IF n = 0 THEN {<<>>}
    ELSE LET shorter == SeqsUpTo(S, n - 1)
         IN  shorter \cup {Append(q, x) : q \in {r \in shorter : Len(r) = n - 1}, x \in S}

Absent == Leaf("absent", "None", <<>>, <<>>, FALSE)
IntLeaf(rd) == Leaf("Int", "Int", <<>>, <<>>, rd)
StringLeaf(size) == Leaf("String", "String", size, <<>>, TRUE)
StructLeaf(bytes, rd) == Leaf("Struct", "Struct", <<>>, bytes, rd)

\* the tree in which each of the given names has the leaf chosen for it
TreeOf(choice) ==
    [n \in {CtlName(k) : k \in {x \in DOMAIN choice : choice[x].ty # "absent"}} |->
        choice[CHOOSE k \in DOMAIN choice : CtlName(k) = n]]

\* the leaves "persist" is given in turn: every arm of the resolver
PersistLeaves ==
    {Absent, IntLeaf(TRUE), IntLeaf(FALSE), StringLeaf(<<"2">>), StringLeaf(<<"x">>),
     StructLeaf(<<16, 0>>, TRUE), StructLeaf(<<3>>, TRUE), StructLeaf(<<>>, TRUE),
     Leaf("Node", "Node", <<>>, <<>>, TRUE)}

FacadeTrees ==
    {TreeOf(c) : c \in
        {f \in [{jid_key, name_key, persist, ip4_addr} -> PersistLeaves \cup {StructLeaf(<<4, 0>>, FALSE)}] :
            /\ f[jid_key] \in {IntLeaf(TRUE), IntLeaf(FALSE)}
            /\ f[name_key] = StringLeaf(<<"2">>)
            /\ f[persist] \in PersistLeaves
            /\ f[ip4_addr] \in {Absent, StructLeaf(<<4, 0>>, FALSE)}}}

FacadeKeys == {ip4_addr, jid_key, name_key, persist, nul_name}
Indexes == {Jid(1), Name(<<"a">>), Name(nul_name)}

\* Action::create(), Action::update(), and their sums with each other and Modifier::attach()
Actions ==
    {{"JAIL_CREATE"}, {"JAIL_UPDATE"}, {"JAIL_CREATE", "JAIL_UPDATE"}, {"JAIL_CREATE", "JAIL_ATTACH"}}

SetKeys == {CStringVal(name_key), CStringVal(persist), CStringVal(ip4_addr)}
SetValues == {CStringVal(<<"a">>), BoolVal(TRUE), NullVal, Ip4(<<"01", NUL, NUL, "7f">>)}
RuleSets ==
    UNION {[D -> SetValues] : D \in {d \in SUBSET SetKeys : Cardinality(d) <= MaxPairs}}

----------------------------------------------------------------------------
(* The facade under every input: one action per operation.                 *)

Init ==
    /\ tree \in FacadeTrees
    /\ RULES_ALL = Unbuilt
    /\ walk = NoWalk
    /\ walks = 0
    /\ pc = [t \in Threads |-> "idle"]
    /\ names = [t \in Threads |-> <<>>]
    /\ seen = [t \in Threads |-> {}]
    /\ call = NoCall

\* a facade call is synchronous: the caller takes its result before the next call
Idle == call.op = "none"

GetRulesOf(indexes, keylists) ==
    /\ Idle
    /\ \E index \in indexes, keys \in keylists :
          call' \in get_rules("get_rules", 0, tree, index, keys)
    /\ UNCHANGED <<tree, RULES_ALL, walk, walks, pc, names, seen>>

SetOf(rulesets, actions) ==
    /\ Idle
    /\ \E rules \in rulesets, action \in actions, reply \in JailSetReplies :
          \E order \in Orders(rules) : call' = set(rules, action, order, reply)
    /\ UNCHANGED <<tree, RULES_ALL, walk, walks, pc, names, seen>>

AttachOf(jids) ==
    /\ Idle
    /\ \E jid \in jids, reply \in StatusReplies : call' = attach(jid, reply)
    /\ UNCHANGED <<tree, RULES_ALL, walk, walks, pc, names, seen>>

RemoveOf(jids) ==
    /\ Idle
    /\ \E jid \in jids, reply \in StatusReplies : call' = remove(jid, reply)
    /\ UNCHANGED <<tree, RULES_ALL, walk, walks, pc, names, seen>>

GetRules == GetRulesOf(Indexes, SeqsUpTo(FacadeKeys, MaxKeys))
Set == SetOf(RuleSets, Actions)
Attach == AttachOf({1, 2})
Remove == RemoveOf({1, 2})

\* the caller has taken the result
Return ==
    /\ ~Idle
    /\ call' = NoCall
    /\ UNCHANGED <<tree, RULES_ALL, walk, walks, pc, names, seen>>

Next == GetRules \/ Set \/ Attach \/ Remove \/ Return

Spec == Init /\ [][Next]_vars

----------------------------------------------------------------------------
(* The resolver under every leaf: get_rules' loop body for one key.        *)

LeafTypes == {"Int", "Ulong", "String", "Struct", "Node", "S64"}

SizeChars == {"0", "1", "4", "+", "x"}
StructValues == {<<>>, <<0>>, <<4>>, <<4, 0>>, <<16>>, <<16, 0>>, <<8>>, <<255>>}

LeafValues ==
    {[k |-> "String", s |-> size, b |-> <<>>] : size \in SeqsUpTo(SizeChars, MaxDigits)}
    \cup {[k |-> "Struct", s |-> <<>>, b |-> bytes] : bytes \in StructValues}
    \cup {[k |-> "Int", s |-> <<>>, b |-> <<>>]}

ResolverKeys == {ip4_addr, ip6_addr, ip4, ip6, persist, host}

\* a tree with at most one leaf
ResolverTrees ==
    {[n \in {} |-> Absent]}
    \cup {[n \in {CtlName(k)} |-> [ty |-> ty, val |-> v, rd |-> rd]] :
            k \in ResolverKeys, ty \in LeafTypes, v \in LeafValues, rd \in BOOLEAN}

InitResolver ==
    /\ tree \in ResolverTrees
    /\ RULES_ALL = Unbuilt
    /\ walk = NoWalk
    /\ walks = 0
    /\ pc = [t \in Threads |-> "idle"]
    /\ names = [t \in Threads |-> <<>>]
    /\ seen = [t \in Threads |-> {}]
    /\ call = NoCall

\* what one turn of get_rules' loop leaves in the request being built
Resolve ==
    /\ Idle
    /\ \E key \in ResolverKeys :
          LET r == ResolveKeys(tree, <<key>>, EmptyMap, <<>>)
          IN  call' = [NoCall EXCEPT !.op = "resolve", !.keys = <<key>>,
                                     !.queried = r.queried, !.hash_map = r.hash_map,
                                     !.result = CASE r.tag = "Ok" -> ResultOk(0, EmptyOut)
                                                  [] r.tag = "Panic" -> ResultPanic
                                                  [] OTHER -> ResultErr(r.err)]
    /\ UNCHANGED <<tree, RULES_ALL, walk, walks, pc, names, seen>>

NextResolver == Resolve \/ Return

SpecResolver == InitResolver /\ [][NextResolver]_vars

----------------------------------------------------------------------------
(* The registry under concurrent first use: get_rules_all from several     *)
(* threads, step by step through lazy_static's Once.                       *)

RegistryTrees ==
    {TreeOf(c) : c \in
        {f \in [{jid_key, persist, ip4_addr} ->
                    {Absent, IntLeaf(TRUE), IntLeaf(FALSE),
                     StructLeaf(<<4, 0>>, TRUE), StructLeaf(<<4, 0>>, FALSE)}] :
            /\ f[jid_key] = IntLeaf(TRUE)
            /\ f[persist] \in {Absent, IntLeaf(TRUE), IntLeaf(FALSE)}
            /\ f[ip4_addr] \in {Absent, StructLeaf(<<4, 0>>, TRUE), StructLeaf(<<4, 0>>, FALSE)}}}

RegistryIndexes == {Jid(1), Name(<<"a">>)}

InitRegistry ==
    /\ tree \in RegistryTrees
    /\ RULES_ALL = Unbuilt
    /\ walk = NoWalk
    /\ walks = 0
    /\ pc = [t \in Threads |-> "idle"]
    /\ names = [t \in Threads |-> <<>>]
    /\ seen = [t \in Threads |-> {}]
    /\ call = NoCall

\* get_rules_all reaches RULES_ALL.keys(): the dereference of the lazy static
Deref(t) ==
    /\ pc[t] = "idle"
    /\ IF OnceStarts(RULES_ALL)
       THEN /\ RULES_ALL' = [RULES_ALL EXCEPT !.state = "Running"]
            /\ walk' = [by |-> t, todo |-> DOMAIN tree, hash_map |-> EmptyRegistry]
            /\ walks' = walks + 1
            /\ pc' = [pc EXCEPT ![t] = "walking"]
            /\ UNCHANGED <<names, seen>>
       ELSE IF RULES_ALL.state = "Complete"
       THEN /\ pc' = [pc EXCEPT ![t] = "collected"]
            /\ names' = [names EXCEPT ![t] = RegistryKeys(RULES_ALL)]
            /\ seen' = [seen EXCEPT ![t] = seen[t] \cup {RULES_ALL.map}]
            /\ UNCHANGED <<RULES_ALL, walk, walks>>
       ELSE IF RULES_ALL.state = "Poisoned"
       THEN /\ pc' = [pc EXCEPT ![t] = "panicked"]
            /\ UNCHANGED <<RULES_ALL, walk, walks, names, seen>>
       ELSE /\ pc' = [pc EXCEPT ![t] = "waiting"]
            /\ UNCHANGED <<RULES_ALL, walk, walks, names, seen>>
    /\ UNCHANGED <<tree, call>>

\* one turn of the initializer's for loop: the unwraps, then the insert
WalkStep(t) ==
    /\ pc[t] = "walking"
    /\ walk.by = t
    /\ \E ctl_name \in walk.todo :
          IF CtlQuery(tree, ctl_name).tag = "Err"
          THEN /\ RULES_ALL' = [RULES_ALL EXCEPT !.state = "Poisoned"]
               /\ walk' = NoWalk
               /\ pc' = [pc EXCEPT ![t] = "panicked"]
          ELSE /\ walk' = [walk EXCEPT
                             !.todo = walk.todo \ {ctl_name},
                             !.hash_map = Insert(walk.hash_map, RuleName(ctl_name),
                                                 Classify(RuleName(ctl_name), tree[ctl_name].ty))]
               /\ UNCHANGED <<RULES_ALL, pc>>
    /\ UNCHANGED <<tree, walks, names, seen, call>>

\* the initializer returns hash_map; the static holds it from now on, and the
\* builder goes on to collect its keys
WalkDone(t) ==
    /\ pc[t] = "walking"
    /\ walk.by = t
    /\ walk.todo = {}
    /\ \E order \in Orders(walk.hash_map) :
          /\ RULES_ALL' = [state |-> "Complete", map |-> walk.hash_map, order |-> order]
          /\ names' = [names EXCEPT ![t] = RegistryKeys(RULES_ALL')]
    /\ seen' = [seen EXCEPT ![t] = seen[t] \cup {walk.hash_map}]
    /\ walk' = NoWalk
    /\ pc' = [pc EXCEPT ![t] = "collected"]
    /\ UNCHANGED <<tree, walks, call>>

\* a thread that found the initializer running is released when it has ended
Wake(t) ==
    /\ pc[t] = "waiting"
    /\ RULES_ALL.state \in {"Complete", "Poisoned"}
    /\ IF RULES_ALL.state = "Complete"
       THEN /\ pc' = [pc EXCEPT ![t] = "collected"]
            /\ names' = [names EXCEPT ![t] = RegistryKeys(RULES_ALL)]
            /\ seen' = [seen EXCEPT ![t] = seen[t] \cup {RULES_ALL.map}]
       ELSE /\ pc' = [pc EXCEPT ![t] = "panicked"]
            /\ UNCHANGED <<names, seen>>
    /\ UNCHANGED <<tree, RULES_ALL, walk, walks, call>>

\* get_rules(index, names)
GetRulesAll(t) ==
    /\ pc[t] = "collected"
    /\ Idle
    /\ \E index \in RegistryIndexes :
          call' \in get_rules("get_rules_all", t, tree, index, names[t])
    /\ pc' = [pc EXCEPT ![t] = "idle"]
    /\ names' = [names EXCEPT ![t] = <<>>]
    /\ UNCHANGED <<tree, RULES_ALL, walk, walks, seen>>

RegistryGetRules == GetRulesOf({Jid(1)}, {<<persist, ip4_addr>>})
RegistrySet == SetOf({[k \in {CStringVal(name_key)} |-> CStringVal(<<"a">>)]}, {{"JAIL_CREATE"}})
RegistryAttach == AttachOf({1})
RegistryRemove == RemoveOf({1})

NextRegistry ==
    \/ \E t \in Threads : Deref(t) \/ WalkStep(t) \/ WalkDone(t) \/ Wake(t) \/ GetRulesAll(t)
    \/ RegistryGetRules
    \/ RegistrySet
    \/ RegistryAttach
    \/ RegistryRemove
    \/ Return

SpecRegistry == InitRegistry /\ [][NextRegistry]_vars

----------------------------------------------------------------------------
(* The conversions under every value: an address turned into a Val, and a  *)
(* value region decoded after the kernel call (get_rules' decode loop body *)
(* for one pair).                                                          *)

AddrBytes == {NUL, "01", "7f"}

\* Ipv4Addr: its four octets; 127.0.0.1 is <<"7f", NUL, NUL, "01">>
Ipv4Addrs == [1..4 -> AddrBytes]

\* Ipv6Addr: its sixteen octets, here one leading octet and three trailing
\* ones around zeros; ::1 is among them
Ipv6Of(p) == [i \in 1..16 |-> IF i = 1 THEN p[1] ELSE IF i >= 14 THEN p[i - 12] ELSE NUL]
Ipv6Addrs == {Ipv6Of(p) : p \in Ipv4Addrs}

Localhost4 == <<"7f", NUL, NUL, "01">>
Localhost6 == Ipv6Of(<<NUL, NUL, NUL, "01">>)

\* the values decoded: every variant of Val
CodecVals ==
    {I32(n) : n \in {-1, 0, 1}} \cup {U32(n) : n \in {0, 1}} \cup {U64(n) : n \in {0, 1}}
    \cup {BoolVal(b) : b \in BOOLEAN}
    \cup {CStringVal(s) : s \in SeqsUpTo({"a", BAD}, 2)}
    \cup {Buffer(b) : b \in SeqsUpTo({"a", NUL, BAD}, 2)}
    \cup {Ip4(swap_bytes(a)) : a \in {Zero4, Localhost4}}
    \cup {Ip6(swap_bytes(a)) : a \in {Zero16, Localhost6}}
    \cup {U128(Zero16), U128(Localhost6), NullVal}

WrittenKinds == {"none", "text", "bad"}

\* what CStr::from_ptr may read after this value
TailsOf(val) ==
    IF val.t = "Buffer" /\ NUL \notin Range(val.s) THEN OverrunTails ELSE {<<>>}

NoAddr == <<>>

InitCodec ==
    /\ tree \in {[n \in {} |-> Absent]}
    /\ RULES_ALL = Unbuilt
    /\ walk = NoWalk
    /\ walks = 0
    /\ pc = [t \in Threads |-> "idle"]
    /\ names = [t \in Threads |-> <<>>]
    /\ seen = [t \in Threads |-> {}]
    /\ call = NoCall

\* value.clone().into() on a value region the kernel call has left
Decode ==
    /\ Idle
    /\ \E val \in CodecVals, w \in WrittenKinds :
          LET written == Written(val, w)
          IN  \E tail \in TailsOf(written) :
                 call' = [op |-> "decode", addr |-> NoAddr, val |-> val, w |-> w,
                          written |-> written, out |-> from_val(written, tail)]
    /\ UNCHANGED <<tree, RULES_ALL, walk, walks, pc, names, seen>>

\* address.try_into() and the decoding of the Val it gives
Convert ==
    /\ Idle
    /\ \E addr \in Ipv4Addrs \cup Ipv6Addrs :
          LET val == IF Len(addr) = 4 THEN TryFromIpv4Addr(addr) ELSE TryFromIpv6Addr(addr)
          IN  call' = [op |-> "convert", addr |-> addr, val |-> val.val, w |-> "none",
                       written |-> val.val, out |-> from_val(val.val, <<>>)]
    /\ UNCHANGED <<tree, RULES_ALL, walk, walks, pc, names, seen>>

NextCodec == Decode \/ Convert \/ Return

SpecCodec == InitCodec /\ [][NextCodec]_vars

----------------------------------------------------------------------------
(* Properties of get_rules.                                                *)

Overrides == {ip4_addr, ip6_addr, ip4, ip6}

\* the key of the index pair
IndexKey(index) == IF index.t = "Jid" THEN jid_key ELSE name_key

\* the schema lookup of this name is made and fails with no-read-access
NoReadName(k) ==
    /\ k \notin Overrides
    /\ CtlQuery(tree, CtlName(k)).err = "SysctlError::NoReadAccess"

\* this name gets a placeholder
Resolvable(k) ==
    /\ NUL \notin Range(k)
    /\ k \in Overrides \/ get_val_by_type(tree, k).tag = "Ok"

\* the result's key set of a call whose kernel fetch succeeded
OutKeys == DOMAIN call.result.out

Fetched == call.syscalls # <<>>

\* C1 as stated: a requested name whose schema lookup fails with no-read-access
\* does not fail get_rules, is left out of the request, and has no entry in the
\* returned mapping, which still holds the other resolvable names.
C1_NoEntryForSkipped ==
    call.op = "get_rules" =>
        LET skipped == {k \in Range(call.keys) : NoReadName(k)}
            others == Range(call.keys) \ skipped
        IN  skipped # {} =>
              /\ ((\A k \in others : Resolvable(k)) /\ NUL \notin Range(call.index.s)) => Fetched
              /\ Fetched => \A k \in skipped : CStringVal(k) \notin DOMAIN call.hash_map
              /\ (Fetched /\ call.ret >= 0) =>
                    /\ call.result.tag = "Ok"
                    /\ \A k \in skipped : k \notin OutKeys
                    /\ \A k \in others : k \in OutKeys

\* C1 amended: as C1, except that a skipped name that is the key of the index
\* pair ("jid" for a numeric index, "name" for a name index) is in the request and
\* in the returned mapping, as the index pair.
C1_NoEntryForSkippedButIndex ==
    call.op = "get_rules" =>
        LET skipped == {k \in Range(call.keys) : NoReadName(k)}
            others == Range(call.keys) \ skipped
            left_out == skipped \ {IndexKey(call.index)}
        IN  skipped # {} =>
              /\ ((\A k \in others : Resolvable(k)) /\ NUL \notin Range(call.index.s)) => Fetched
              /\ Fetched => \A k \in left_out : CStringVal(k) \notin DOMAIN call.hash_map
              /\ (Fetched /\ call.ret >= 0) =>
                    /\ call.result.tag = "Ok"
                    /\ \A k \in left_out : k \notin OutKeys
                    /\ \A k \in others : k \in OutKeys
                    /\ IndexKey(call.index) \in OutKeys

\* get_rules succeeded on a list holding a no-read-access name and a name resolved
\* through the schema
C1_Witness ==
    /\ call.op = "get_rules"
    /\ call.result.tag = "Ok"
    /\ call.keys = <<jid_key, persist>>
    /\ NoReadName(jid_key)
    /\ call.index = Name(<<"a">>)
    /\ OutKeys = {persist, name_key}

\* the first name of the list whose resolution fails for another reason than
\* no-read-access, and the error it fails with
FailsAt(i) ==
    LET k == call.keys[i]
    IN  /\ k \notin Overrides
        /\ \/ NUL \in Range(k)
           \/ /\ get_val_by_type(tree, k).tag = "Err"
              /\ get_val_by_type(tree, k).err # "SysctlError::NoReadAccess"

PanicsAt(i) == call.keys[i] \notin Overrides /\ get_val_by_type(tree, call.keys[i]).tag = "Panic"

FailureOf(k) ==
    IF NUL \in Range(k) THEN "ConvertError::NulError" ELSE get_val_by_type(tree, k).err

\* C2: a failure other than no-read-access while resolving a name aborts
\* get_rules with that error: no kernel fetch is issued and no mapping returned,
\* however many earlier names resolved.
C2_OtherFailuresAbort ==
    call.op = "get_rules" =>
        \A i \in 1..Len(call.keys) :
            (FailsAt(i) /\ \A j \in 1..(i - 1) : ~FailsAt(j) /\ ~PanicsAt(j)) =>
                /\ call.result = ResultErr(FailureOf(call.keys[i]))
                /\ call.syscalls = <<>>
                /\ call.iovec_vec = <<>>
                /\ OutKeys = {}

\* get_rules aborted with MismatchCtlType on its second name, after the first
\* had been resolved through the schema
C2_Witness ==
    /\ call.op = "get_rules"
    /\ call.keys = <<name_key, persist>>
    /\ Len(call.queried) = 2
    /\ call.result = ResultErr("MismatchCtlType")

\* a byte value that does not hold valid text
InvalidText(v) ==
    /\ v.t \in {"CString", "Buffer"}
    /\ ~IsUtf8(IF v.t = "Buffer" THEN CStrFromPtr(v.s, <<>>) ELSE v.s)

ConversionErrors ==
    {"ConvertError::NulError", "ConvertError::IntoStringError", "ConvertError::ParseIntError"}

\* C13: after a successful fetch get_rules fails only if a byte value does not
\* hold valid text, and then it does fail, with a conversion error: such a value
\* never ends in a successful result.
C13_InvalidTextAborts ==
    (call.op = "get_rules" /\ Fetched /\ call.ret >= 0) =>
        LET invalid == \E k \in DOMAIN call.written : InvalidText(call.written[k])
        IN  /\ invalid => (call.result.tag = "Err" /\ call.result.err \in ConversionErrors)
            /\ call.result.tag # "Ok" => invalid

\* C14: get_rules returns a mapping exactly when the kernel fetch was made and
\* returned a non-negative status; the mapping then has one entry per pair of
\* the request, under the requested names that are not skipped and the index
\* key, each the decoding of its value region; on a negative status the result
\* is the OS error and no mapping.
C14_MappingIffNonNegative ==
    call.op = "get_rules" =>
        /\ call.result.tag = "Ok" <=> (Fetched /\ call.ret >= 0)
        /\ (Fetched /\ call.ret >= 0) =>
              /\ OutKeys = {k \in Range(call.keys) : ~NoReadName(k)} \cup {IndexKey(call.index)}
              /\ Cardinality(OutKeys) = Cardinality(DOMAIN call.hash_map)
              /\ 2 * Cardinality(OutKeys) = Len(call.iovec_vec)
              /\ \E tail \in Tails(call.hash_map) :
                    \A k \in OutKeys :
                        call.result.out[k] = from_val(call.written[CStringVal(k)], tail)
        /\ (Fetched /\ call.ret < 0) =>
              /\ call.result = ResultIoError(call.errno)
              /\ call.result.out = EmptyOut

\* a fetch of "persist" and of the unreadable "jid" under a numeric index
\* returned status 0 and a mapping of the values written for "persist" and for
\* the index pair
C14_Witness ==
    /\ call.op = "get_rules"
    /\ call.keys = <<persist, jid_key>>
    /\ call.index = Jid(1)
    /\ NoReadName(jid_key)
    /\ call.ret = 0
    /\ call.written # call.hash_map
    /\ call.result.tag = "Ok"
    /\ OutKeys = {persist, jid_key}
    /\ call.result.out[persist] = OutVal("I32", 1, <<>>)

\* C16: the request get_rules sends holds exactly one pair under the index key,
\* with the caller's id or name as its value, whatever the name list resolved
\* to; and a name list that is empty or wholly skipped still gives a request.
C16_IndexEntryWins ==
    call.op = "get_rules" =>
        LET key == CStringVal(IndexKey(call.index))
            value == IF call.index.t = "Jid" THEN I32(call.index.n) ELSE CStringVal(call.index.s)
            at == {i \in 1..Len(call.iovec_vec) : i % 2 = 1 /\ call.iovec_vec[i].iov_base.pair = key}
        IN  /\ Fetched =>
                  /\ key \in DOMAIN call.hash_map
                  /\ call.hash_map[key] = value
                  /\ Cardinality(at) = 1
                  /\ \A i \in at : call.iovec_vec[i + 1] = to_iov(value, ValuePtr(key))
            /\ ((\A k \in Range(call.keys) : NoReadName(k)) /\ NUL \notin Range(call.index.s)) =>
                  /\ Fetched
                  /\ DOMAIN call.hash_map = {key}

\* "jid" was asked for and resolved under a numeric index: the request holds
\* the caller's id under "jid", not the placeholder
C16_Witness ==
    /\ call.op = "get_rules"
    /\ call.index = Jid(1)
    /\ jid_key \in Range(call.keys)
    /\ get_val_by_type(tree, jid_key) = Ok(I32(0))
    /\ Fetched
    /\ call.hash_map[CStringVal(jid_key)] = I32(1)

----------------------------------------------------------------------------
(* Properties of set, attach and remove, and of the region list.           *)

\* C6: set calls jail_set exactly once and returns Ok(id) exactly when the
\* kernel returned an identifier > 0, and then that identifier; for every other
\* return value, zero included, it returns the OS last-error.
C6_SetOkIffPositive ==
    call.op = "set" =>
        /\ Len(call.syscalls) = 1
        /\ call.syscalls[1].name = "jail_set"
        /\ call.result.tag = "Ok" <=> call.ret > 0
        /\ call.ret > 0 => call.result = ResultOk(call.ret, EmptyOut)
        /\ call.ret <= 0 => call.result = ResultIoError(call.errno)

\* set returned an error although the kernel returned zero
C6_Witness ==
    /\ call.op = "set"
    /\ call.ret = 0
    /\ call.result = ResultIoError("EPERM")

\* C7: attach and remove return success exactly when the kernel call returned
\* zero; for every other return value they return the OS last-error.
C7_StatusOkIffZero ==
    call.op \in {"attach", "remove"} =>
        /\ Len(call.syscalls) = 1
        /\ call.syscalls[1].name = (IF call.op = "attach" THEN "jail_attach" ELSE "jail_remove")
        /\ call.result.tag = "Ok" <=> call.ret = 0
        /\ call.ret # 0 => call.result = ResultIoError(call.errno)
        /\ call.result.tag # "Panic"

\* attach returned an error for an identifier the kernel does not know
C7_Witness ==
    /\ call.op = "attach"
    /\ call.ret # 0
    /\ call.result = ResultIoError("ENOENT")

\* C8: the region list of a parameter set of n pairs has 2n regions; the region
\* at each odd place is that of a pair's key and the next one that of the same
\* pair's value, and each pair is there once.
C8_KeyThenValue ==
    (call.op \in {"set", "get_rules"} /\ Fetched) =>
        LET m == call.hash_map
            v == call.iovec_vec
            n == Cardinality(DOMAIN m)
        IN  /\ Len(v) = 2 * n
            /\ call.syscalls[1].niov = 2 * n
            /\ \A i \in 1..n :
                  \E k \in DOMAIN m :
                      /\ v[2 * i - 1] = to_iov(k, KeyPtr(k))
                      /\ v[2 * i] = to_iov(m[k], ValuePtr(k))
            /\ \A k \in DOMAIN m :
                  Cardinality({i \in 1..Len(v) : v[i].iov_base = KeyPtr(k)}) = 1

\* set and get_rules each built the region list of two pairs or more
C8_Witness ==
    /\ call.op \in {"set", "get_rules"}
    /\ Fetched
    /\ Len(call.iovec_vec) >= 4
    /\ call.iovec_vec[1].iov_base.role = "key"
    /\ call.iovec_vec[2].iov_base.pair = call.iovec_vec[1].iov_base.pair

----------------------------------------------------------------------------
(* Properties of the resolver.                                             *)

\* the one pair a resolved key leaves in the request
Resolved(key, placeholder) ==
    /\ call.result.tag = "Ok"
    /\ call.hash_map = [k \in {CStringVal(key)} |-> placeholder]

\* C9: "ip4.addr", "ip6.addr", "ip4" and "ip6" resolve to IPv4(0), IPv6(0),
\* Int32(0) and Int32(0) without any schema query, whatever the schema holds for
\* the name.
C9_OverridesWithoutQuery ==
    (call.op = "resolve" /\ call.keys[1] \in Overrides) =>
        /\ call.queried = <<>>
        /\ call.keys[1] = ip4_addr => Resolved(ip4_addr, Val("Ip4", 0, <<"00", "00", "00", "00">>))
        /\ call.keys[1] = ip6_addr => Resolved(ip6_addr, Val("Ip6", 0, [i \in 1..16 |-> "00"]))
        /\ call.keys[1] = ip4 => Resolved(ip4, Val("I32", 0, <<>>))
        /\ call.keys[1] = ip6 => Resolved(ip6, Val("I32", 0, <<>>))

\* "ip4" was resolved while the schema holds an unreadable leaf of another type
\* for it
C9_Witness ==
    /\ call.op = "resolve"
    /\ call.keys = <<ip4>>
    /\ CtlName(ip4) \in DOMAIN tree
    /\ tree[CtlName(ip4)].ty = "String"
    /\ ~tree[CtlName(ip4)].rd
    /\ call.result.tag = "Ok"

\* a string of decimal digits, and the number it writes
IsDecimal(s) == Len(s) > 0 /\ \A i \in 1..Len(s) : s[i] \in Range(Digits)
RECURSIVE DecimalOf(_)
DecimalOf(s) ==
    IF Len(s) = 0 THEN 0 ELSE 10 * DecimalOf(SubSeq(s, 1, Len(s) - 1)) + DigitVal(s[Len(s)])

\* C10: for a name that is no built-in override and whose leaf can be read, the
\* placeholder follows from the leaf's type and value: Int gives Int32(0), Ulong
\* UInt64(0), String a zero-filled buffer of the parsed size or a conversion
\* error, Struct UInt32(0) for a first element 4, UInt128(0) for 16 and
\* MismatchValue otherwise, another value shape MismatchValue, another type
\* MismatchType.
C10_PlaceholderByType ==
    (/\ call.op = "resolve"
     /\ call.keys[1] \notin Overrides
     /\ CtlName(call.keys[1]) \in DOMAIN tree
     /\ tree[CtlName(call.keys[1])].rd) =>
        LET key == call.keys[1]
            leaf == tree[CtlName(key)]
            failed(e) == call.result = ResultErr(e) /\ call.hash_map = EmptyMap
        IN  /\ call.queried = <<CtlName(key)>>
            /\ leaf.ty = "Int" => Resolved(key, Val("I32", 0, <<>>))
            /\ leaf.ty = "Ulong" => Resolved(key, Val("U64", 0, <<>>))
            /\ (leaf.ty = "String" /\ leaf.val.k = "String") =>
                  /\ IsDecimal(leaf.val.s) =>
                        Resolved(key, Val("Buffer", 0, [i \in 1..DecimalOf(leaf.val.s) |-> "00"]))
                  /\ call.result.tag = "Ok" =>
                        /\ call.hash_map[CStringVal(key)].t = "Buffer"
                        /\ Range(call.hash_map[CStringVal(key)].s) \subseteq {"00"}
                        /\ Len(call.hash_map[CStringVal(key)].s) = ParseUsize(leaf.val.s).n
                  /\ ~ParseUsize(leaf.val.s).ok => failed("ConvertError::ParseIntError")
                  /\ (\E i \in 1..Len(leaf.val.s) : leaf.val.s[i] \notin Range(Digits) \cup {"+"}) =>
                        failed("ConvertError::ParseIntError")
                  /\ leaf.val.s = <<>> => failed("ConvertError::ParseIntError")
            /\ (leaf.ty = "Struct" /\ leaf.val.k = "Struct" /\ Len(leaf.val.b) > 0) =>
                  /\ leaf.val.b[1] = 4 => Resolved(key, Val("U32", 0, <<>>))
                  /\ leaf.val.b[1] = 16 => Resolved(key, Val("U128", 0, [i \in 1..16 |-> "00"]))
                  /\ leaf.val.b[1] \notin {4, 16} => failed("MismatchCtlValue")
            /\ (leaf.ty \in {"String", "Struct"} /\ leaf.val.k # leaf.ty) => failed("MismatchCtlValue")
            /\ leaf.ty \notin {"Int", "Ulong", "String", "Struct"} => failed("MismatchCtlType")

\* "persist" was resolved from a String leaf that declares 14 bytes
C10_Witness ==
    /\ call.op = "resolve"
    /\ call.keys = <<persist>>
    /\ CtlName(persist) \in DOMAIN tree
    /\ tree[CtlName(persist)].ty = "String"
    /\ tree[CtlName(persist)].val.s = <<"1", "4">>
    /\ call.result.tag = "Ok"
    /\ Len(call.hash_map[CStringVal(persist)].s) = 14

----------------------------------------------------------------------------
(* Properties of the conversions.                                          *)

\* the OutVal of the same variant and value as a Val: text for the two byte
\* variants, the address whose network-order integer an address variant holds
SameOutVal(v) ==
    CASE v.t \in {"I32", "U32", "U64", "Bool"} -> OutVal(v.t, v.n, <<>>)
      [] v.t \in {"CString", "Buffer"} -> OutVal("String", 0, v.s)
      [] v.t \in {"Ip4", "Ip6"} -> OutVal(v.t, 0, Reverse(v.s))
      [] OTHER -> OutVal(v.t, 0, v.s)

\* C11: decoding a value the kernel has not changed gives an OutVal of the same
\* variant and the same value, for every variant of Val.
C11_DecodeGivesSameValue ==
    (call.op = "decode" /\ call.w = "none") => call.out = SameOutVal(call.val)

\* C12: an address turned into a Val and decoded is the address again, and the
\* integer the Val holds is the byte-swapped numeric value of the address.
C12_AddressRoundTrip ==
    call.op = "convert" =>
        LET family == IF Len(call.addr) = 4 THEN "Ip4" ELSE "Ip6"
        IN  /\ call.out = OutVal(family, 0, call.addr)
            /\ call.val = Val(family, 0, Reverse(from_be_bytes(call.addr)))
            /\ swap_bytes(swap_bytes(call.val.s)) = call.val.s

\* 127.0.0.1 has been converted, swapped on the way in, and decoded
C12_Witness ==
    /\ call.op = "convert"
    /\ call.addr = Localhost4
    /\ call.val.s = <<"01", NUL, NUL, "7f">>
    /\ call.out.s = Localhost4

\* C15: a UInt128 or a Null value decodes to Int32(0), whatever the kernel left
\* in it.
C15_NoCounterpartGivesZero ==
    (call.op = "decode" /\ call.val.t \in {"U128", "Null"}) =>
        call.out = OutVal("I32", 0, <<>>)

\* the placeholder of a 16-byte struct parameter, written by the kernel, has
\* been decoded
C15_Witness ==
    /\ call.op = "decode"
    /\ call.val = PlaceholderOf(StructLeaf(<<16, 0>>, TRUE)).val
    /\ call.val.t = "U128"
    /\ call.written # call.val
    /\ call.out = OutVal("I32", 0, <<>>)

----------------------------------------------------------------------------
(* Properties of the registry and of get_rules_all.                        *)

\* the mapping a complete walk of the tree gives
FullRegistry ==
    [r \in {RuleName(n) : n \in DOMAIN tree} |->
        IF r = ip4_addr THEN "Ip4"
        ELSE IF r = ip6_addr THEN "Ip6"
        ELSE IF tree[CtlName(r)].ty \in {"Int", "Ulong", "String"} THEN tree[CtlName(r)].ty
        ELSE "Unknown"]

C3_Once ==
    /\ walks <= 1
    /\ (\E t \in Threads : pc[t] # "idle") => walks = 1
    /\ \A t \in Threads : seen[t] \subseteq {FullRegistry}
    /\ RULES_ALL.state = "Complete" => RULES_ALL.map = FullRegistry
    /\ RULES_ALL.state # "Complete" => RULES_ALL.map = EmptyRegistry

C3_Frozen ==
    RULES_ALL.state = "Complete" => (RULES_ALL' = RULES_ALL /\ walks' = walks)

\* C3: however the threads' first uses interleave, the schema subtree is walked
\* once, every thread that gets the mapping gets the complete one, and once it
\* is built no operation changes it or walks again.
C3_BuiltOnce == [](C3_Once) /\ [][C3_Frozen]_vars

\* every thread has obtained the mapping from the one walk, and set has been
\* called since
C3_Witness ==
    /\ walks = 1
    /\ \A t \in Threads : seen[t] = {RULES_ALL.map}
    /\ Cardinality(DOMAIN RULES_ALL.map) >= 2
    /\ call.op = "set"

\* C4: get_rules_all asks for the names the registry holds, each once, as
\* get_rules does for that list, and no name is twice a key of the request sent
\* to the kernel, built-in overrides included.
C4_AsksRegistryKeysOnce ==
    call.op = "get_rules_all" =>
        /\ RULES_ALL.state = "Complete"
        /\ Range(call.keys) = DOMAIN RULES_ALL.map
        /\ Len(call.keys) = Cardinality(DOMAIN RULES_ALL.map)
        /\ LET r == Request(tree, call.index, call.keys)
           IN  IF r.tag # "Ok"
               THEN call = get_rules_early(call.op, call.by, call.index, call.keys, r)
               ELSE /\ call.queried = r.queried
                    /\ call.hash_map = r.hash_map
                    /\ \E order \in Orders(r.hash_map) :
                          call.iovec_vec = PushPairs(r.hash_map, order, <<>>)
                    /\ \E tail \in Tails(r.hash_map) :
                          call.result = GetRulesResult([ret |-> call.ret, errno |-> call.errno,
                                                        written |-> call.written], tail)
        /\ Fetched =>
              \A i, j \in 1..Len(call.iovec_vec) :
                  (i % 2 = 1 /\ j % 2 = 1 /\ i # j) =>
                      call.iovec_vec[i].iov_base.pair.s # call.iovec_vec[j].iov_base.pair.s

\* get_rules_all sent a request for a registry that holds "ip4.addr" and "jid",
\* under a numeric index
C4_Witness ==
    /\ call.op = "get_rules_all"
    /\ Fetched
    /\ {ip4_addr, jid_key} \subseteq Range(call.keys)
    /\ call.index.t = "Jid"
    /\ Len(call.iovec_vec) = 2 * Len(call.keys)

\* C5: get_rules_all succeeds when a leaf of the schema cannot be read by the
\* caller: it neither aborts nor fails when the kernel fetch succeeds.
C5_SucceedsWithUnreadableLeaf ==
    (\E n \in DOMAIN tree : ~tree[n].rd) =>
        /\ \A t \in Threads : pc[t] # "panicked"
        /\ (call.op = "get_rules_all" /\ Fetched /\ call.ret >= 0) => call.result.tag = "Ok"

====
